---- MODULE Spec2Model ----
(***************************************************************************)
(* The self-update pipeline installed by migration 2025_12                 *)
(* (src/app/src/migrations/m2025_12.rs): updater.sh (UPDATER_SCRIPT, the   *)
(* check pass) and activate-update.sh (ACTIVATE_SCRIPT, the activation     *)
(* pass), running as separate one-shot processes over shared files: the    *)
(* state file, the staged files /tmp/<b>.new, the install directory, the   *)
(* trigger file and the two flock lock files.                              *)
(*                                                                         *)
(* A step of the model is one access of a process to a shared file; the    *)
(* process-local work that follows it (network calls, comparisons, writes  *)
(* to private scratch files) is part of the same step.                     *)
(*                                                                         *)
(* With it, three parts of the user interface, each under a specification  *)
(* of its own: the terminal loop (src/app/src/tui.rs, run), the on-screen  *)
(* keyboard's input handling (src/app/src/keyboard/input.rs) and the       *)
(* physical keyboard adapter (src/app/src/inputs/evdev.rs).                *)
(***************************************************************************)
EXTENDS Naturals, Sequences, FiniteSets, TLC

\* How many updater.sh / activate-update.sh processes may be alive at once;
\* a process that has ended may be launched again.
MaxUpdaters == 2
MaxActivators == 2
\* How many processes the scheduler launches in all.
MaxLaunches == 2

Updaters == 1..MaxUpdaters
Activators == 1..MaxActivators

\* The terminal loop: how many frames it draws, how many input events are
\* sent to it, and how many actions one update returns at most.
MaxFrames == 2
MaxInputs == 2
MaxActions == 2
\* The on-screen keyboard: how many rows a layout has, and keys a row, at most.
MaxRows == 3
MaxCols == 3
\* The physical keyboard: how many keys are down at once, at most.
MaxHeld == 3

(***************************************************************************)
(* Script constants                                                        *)
(***************************************************************************)
STAGING_DIR == "/tmp"
BINARIES_TO_UPDATE == <<"amaru-pi", "amaru", "amaru-doctor">>
MANAGED_SERVICES == <<"amaru-pi.service", "amaru.service">>
Binaries == {BINARIES_TO_UPDATE[n] : n \in DOMAIN BINARIES_TO_UPDATE}
Services == {MANAGED_SERVICES[n] : n \in DOMAIN MANAGED_SERVICES}

\* The environment file /home/pi/amaru.env as sourced by one updater run.
NoOverride ==
    [AMARU_REPO_OVERRIDE |-> "", AMARU_PI_REPO_OVERRIDE |-> "",
     AMARU_DOCTOR_REPO_OVERRIDE |-> ""]
EnvFiles == {NoOverride, [NoOverride EXCEPT !.AMARU_REPO_OVERRIDE = "fork/amaru"]}

GITHUB_REPOS(env) ==
    [b \in Binaries |->
        CASE b = "amaru" ->
               IF env.AMARU_REPO_OVERRIDE # "" THEN env.AMARU_REPO_OVERRIDE
               ELSE "pragma-org/amaru"
          [] b = "amaru-pi" ->
               IF env.AMARU_PI_REPO_OVERRIDE # "" THEN env.AMARU_PI_REPO_OVERRIDE
               ELSE "jeluard/amaru-pi"
          [] OTHER ->
               IF env.AMARU_DOCTOR_REPO_OVERRIDE # "" THEN env.AMARU_DOCTOR_REPO_OVERRIDE
               ELSE "jeluard/amaru-doctor"]

(***************************************************************************)
(* JSON documents and jq                                                   *)
(***************************************************************************)
\* JSON null, as distinct from every string.
Null == "<json null>"

\* jq -r prints null as the text null, a string as its characters.
JqRaw(v) == IF v = Null THEN "null" ELSE v
\* jq's alternative operator a // b.
JqAlt(v, d) == IF v = Null THEN d ELSE v

DefaultRecord ==
    [current_version |-> "v0.0.0", current_source |-> "",
     pending_version |-> "", pending_source |-> "", staged_path |-> ""]
DefaultState ==
    [notify_after |-> 0, applications |-> [b \in Binaries |-> DefaultRecord]]

\* .applications[b] of a document; null when the key is missing.
AppOf(doc, b) ==
    IF b \in DOMAIN doc.applications THEN doc.applications[b]
    ELSE [current_version |-> Null, current_source |-> Null,
          pending_version |-> Null, pending_source |-> Null, staged_path |-> Null]

\* jq path assignment .applications[b] = rec; creates the key when missing.
SetApp(doc, b, rec) ==
    [doc EXCEPT !.applications =
        [x \in (DOMAIN doc.applications) \cup {b} |->
            IF x = b THEN rec ELSE doc.applications[x]]]

\* jq runs its filter once per document of its input, none for an empty
\* input: a file's content is the sequence of its documents, and a jq run
\* maps the filter over it.

\* jq -r '.applications | keys[]': the keys in jq's sorted order.
KeyOrder == <<"amaru", "amaru-doctor", "amaru-pi">>
IsKey(content, b) == Len(content) > 0 /\ b \in DOMAIN content[1].applications
Keys(content) == SelectSeq(KeyOrder, LAMBDA b : IsKey(content, b))

(***************************************************************************)
(* Files                                                                   *)
(***************************************************************************)
\* A file that does not exist; a binary file holding the payload of release
\* ver of repository src.
NoFile == <<>>
Bin(src, ver) == <<src, ver>>
\* The binaries shipped with the device image, never installed by the updater.
ImageBin == Bin("image", "image")

StagingPath(b) == STAGING_DIR \o "/" \o b \o ".new"

\* The state file: whether it exists, and the JSON documents it holds (none
\* when it is empty).
AbsentStateFile == [present |-> FALSE, content |-> <<>>]
EmptyStateFile == [present |-> TRUE, content |-> <<>>]
StateFileOf(content) == [present |-> TRUE, content |-> content]

(***************************************************************************)
(* Release source and downloads (external collaborators)                   *)
(***************************************************************************)
Tags == {"v1.2.0"}

\* An asset name as its parts; contains("x") holds when x is one of them.
LinuxAsset == <<"linux", "aarch64", ".tar.gz">>
WindowsAsset == <<"windows", "x86_64", ".zip">>
Contains(name, part) == \E n \in DOMAIN name : name[n] = part

\* Every repository a binary can be configured to come from.
Repos == {GITHUB_REPOS(env)[b] : env \in EnvFiles, b \in Binaries}
ReposOf(b) == {GITHUB_REPOS(env)[b] : env \in EnvFiles}
\* The release source: per repository the tag of its latest release, or
\* "none". Init picks one in which the repositories of one binary have a
\* release and the others have none yet.
Remotes ==
    {[r \in Repos |-> IF r \in ReposOf(b) THEN t ELSE "none"] : b \in Binaries, t \in Tags}

Release(repo, tag, names) ==
    [http |-> 200, json |-> TRUE, tag_name |-> tag,
     assets |-> [n \in DOMAIN names |->
                    [name |-> names[n], browser_download_url |-> <<repo, tag, names[n]>>]]]
\* What GET /repos/<repo>/releases/latest may answer; status 0 is curl's 000,
\* no answer at all.
NoRelease(http) == [http |-> http, json |-> FALSE, tag_name |-> "", assets |-> <<>>]
Responses(latest, repo) ==
    IF latest = "none" THEN {NoRelease(404)}
    ELSE {Release(repo, latest, <<WindowsAsset, LinuxAsset>>),
          Release(repo, latest, <<WindowsAsset>>),
          NoRelease(200), NoRelease(500), NoRelease(0)}

\* What curl -sL -o <archive> <url> may leave behind: "tarball" is the release
\* archive holding the binary, "nopayload" an archive without a file named
\* as the binary, "notarchive" a body that is no archive (an error page saved
\* by curl, which has no -f); "curlfail" is curl exiting non-zero.
Downloads == {"tarball", "nopayload", "notarchive", "curlfail"}

\* fetch_latest_release_json: its return code.
fetch_latest_release_json(resp) ==
    IF resp.http = 200 THEN 0 ELSE IF resp.http = 404 THEN 2 ELSE 1

\* What fetch_latest_release_json logs, and check_one_binary when it fails:
\* there rc=$? is the status of the negated condition, 0, never 2.
fetch_log(resp) ==
    LET rc == 0
        skip == IF rc = 2 THEN "WARN: No release found (404). Skipping."
                ELSE "WARN: Failed to fetch releases. Skipping."
    IN  IF resp.http = 200 THEN <<>>
        ELSE IF resp.http = 404
             THEN <<"WARN: Repo exists but has no 'latest' release (HTTP 404)", skip>>
             ELSE <<"ERROR: Failed to fetch release", skip>>

\* What extract_release_info logs, and check_one_binary when it fails.
extract_log(resp) ==
    IF ~resp.json
    THEN <<"ERROR: Invalid JSON received",
           "WARN: Valid release found, but no matching aarch64 assets. Skipping.">>
    ELSE <<"WARN: Valid release found, but no matching aarch64 assets. Skipping.">>

\* A variant: any asset of the release is taken.
IsSuitableAsset_any(a) == Len(a.name) > 0

\* extract_release_info: return code 1, or 0 with "<tag>|<url>" on stdout.
IsSuitableAsset(a) ==
    Contains(a.name, "linux") /\ Contains(a.name, "aarch64") /\ Contains(a.name, ".tar.gz")
extract_release_info(resp) ==
    LET suitable == SelectSeq(resp.assets, IsSuitableAsset)
        download_url == IF suitable = <<>> THEN <<>> ELSE suitable[1].browser_download_url
    IN  IF ~resp.json \/ resp.tag_name = "" \/ download_url = <<>>
        THEN [rc |-> 1, latest_version |-> "", download_url |-> <<>>]
        ELSE [rc |-> 0, latest_version |-> resp.tag_name, download_url |-> download_url]

\* Variants of the test: staging only when both the version and the source
\* differ; staging when the version differs or the source is the same.
UpdateDue_both(current_version, latest_version, current_source, target_repo) ==
    current_version # latest_version /\ current_source # target_repo
UpdateDue_same_source(current_version, latest_version, current_source, target_repo) ==
    current_version # latest_version \/ current_source = target_repo

\* The test of check_one_binary that decides whether to stage.
UpdateDue(current_version, latest_version, current_source, target_repo) ==
    current_version # latest_version \/ current_source # target_repo

\* A variant: a lock that is always granted.
FlockNB_granted(holder) == TRUE

\* flock -n on a lock file whose current holder is `holder` (0: nobody).
FlockNB(holder) == holder = 0

\* curl's output file: an archive (tar can read it) and the files in it.
ArchiveOf(dl, download_url, binary_name) ==
    CASE dl = "tarball" ->
           [tar |-> TRUE, files |-> {<<binary_name, Bin(download_url[1], download_url[2])>>}]
      [] dl = "nopayload" ->
           [tar |-> TRUE, files |-> {<<"README.md", Bin(download_url[1], download_url[2])>>}]
      [] OTHER -> [tar |-> FALSE, files |-> {}]
NoArchive == [tar |-> FALSE, files |-> {}]

\* stage_binary, run in a command substitution: what it prints (nothing when
\* abort ends the substitution's subshell), the subshell's exit status, what
\* it and tar write to standard error, and the file it leaves at the staging
\* path, given the one there before. The subshell of a command substitution
\* runs without -e, so a failing tar does not end it.
stage_binary(binary_name, archive, before) ==
    LET extract_dir == IF archive.tar THEN archive.files ELSE {}
        tar_stderr == IF archive.tar THEN <<>> ELSE <<"tar: Error is not recoverable">>
        found == {f \in extract_dir : f[1] = binary_name}
    IN  IF found = {}
        THEN [stdout |-> "", staging_file |-> before, rc |-> 1,
              stderr |-> tar_stderr \o <<"ERROR: Extracted file missing">>]
        ELSE [stdout |-> StagingPath(binary_name), rc |-> 0, stderr |-> tar_stderr,
              staging_file |-> (CHOOSE f \in found : TRUE)[2]]

\* A variant: the filter also makes the staged version the current one.
update_state_filter_promoting(doc, binary, ver, path, src) ==
    SetApp(doc, binary,
           [AppOf(doc, binary) EXCEPT !.current_version = ver,
                                      !.current_source = src,
                                      !.pending_version = ver,
                                      !.pending_source = src,
                                      !.staged_path = path])

\* The filter of update_state_file, on one document.
update_state_filter(doc, binary, ver, path, src) ==
    SetApp(doc, binary,
           [AppOf(doc, binary) EXCEPT !.pending_version = ver,
                                      !.pending_source = src,
                                      !.staged_path = path])

\* The filter of check_one_binary's lazy add, on one document.
lazy_add_filter(doc, binary) == SetApp(doc, binary, DefaultRecord)

\* A variant: the promotion records the version but not where it came from.
promote_filter_version_only(doc, app_name, pending_ver, pending_src) ==
    SetApp(doc, app_name,
           [AppOf(doc, app_name) EXCEPT !.current_version = pending_ver,
                                        !.pending_version = "",
                                        !.pending_source = "",
                                        !.staged_path = ""])

\* A variant: the promotion leaves the pending fields as they are.
promote_filter_keeping(doc, app_name, pending_ver, pending_src) ==
    SetApp(doc, app_name,
           [AppOf(doc, app_name) EXCEPT !.current_version = pending_ver,
                                        !.current_source = pending_src])

\* The promotion filter of apply_updates, on one document.
promote_filter(doc, app_name, pending_ver, pending_src) ==
    SetApp(doc, app_name,
           [AppOf(doc, app_name) EXCEPT !.current_version = pending_ver,
                                        !.current_source = pending_src,
                                        !.pending_version = "",
                                        !.pending_source = "",
                                        !.staged_path = ""])

\* A variant: the save counts the activations in notify_after.
save_filter_counting(doc) == [doc EXCEPT !.notify_after = doc.notify_after + 1]

\* The filter of apply_updates' save, on one document.
save_filter(doc) == [doc EXCEPT !.notify_after = 0]

(***************************************************************************)
(* State                                                                   *)
(***************************************************************************)
VARIABLES
    stateFile,    \* /home/pi/.amaru_update_state.json
    stagedFile,   \* stagedFile[b]: the file /tmp/<b>.new
    binFile,      \* binFile[b]: the file /home/pi/bin/<b>
    bakFile,      \* bakFile[b]: the file /home/pi/bin/<b>.bak
    trigger,      \* whether /home/pi/.update_requested exists
    svc,          \* svc[s]: "active" or "inactive", per managed service
    checkLock,    \* holder of the flock on /tmp/amaru_check_update.lock, 0: free
    actLock,      \* holder of the flock on /tmp/amaru_update.lock, 0: free
    actFd,        \* the activator's redirection onto the state file
    launches,     \* how many processes have been launched so far
    envFile,      \* /home/pi/amaru.env: the repository overrides it sets
    remote,       \* remote[repo]: the tag of the repository's latest release
    upd,          \* upd[i]: updater.sh process i, its position and locals
    act,          \* act[j]: activate-update.sh process j, its position and locals
    \* tui.rs, run
    running,      \* the AtomicBool running
    events,       \* the Vec events
    input_rx,     \* the events sent on the channel and not yet received
    actions,      \* what is left of the actions of the event being handled
    tuiPc,        \* where run is
    handled,      \* how many actions handle_action has been called with
    frames,       \* how many frames terminal.draw has drawn
    sent,         \* how many input events have been sent on the channel
    \* keyboard/input.rs, KeyboardWidget
    cursor,       \* self.cursor: <<row, column>>, counted from 0
    mode,         \* self.mode
    layout,       \* KEYBOARD_LAYOUT: the rows of keys
    kbdAction,    \* what the last handle_input returned
    \* inputs/evdev.rs, EvdevAdapter
    modifiers,    \* self.modifiers
    held,         \* the keys of the device that are down
    evOut         \* the last device event and what next_key_event made of it

scriptVars == <<stateFile, stagedFile, binFile, bakFile, trigger, svc,
                checkLock, actLock, actFd, launches, envFile, remote, upd, act>>
tuiVars == <<running, events, input_rx, actions, tuiPc, handled, frames, sent>>
kbdVars == <<cursor, mode, layout, kbdAction>>
evVars == <<modifiers, held, evOut>>
uiVars == <<tuiVars, kbdVars, evVars>>
vars == <<scriptVars, uiVars>>

\* run, before its loop: running is true, events is empty, nothing is drawn.
TuiInit ==
    /\ running = TRUE
    /\ events = <<>>
    /\ input_rx = <<>>
    /\ actions = <<>>
    /\ tuiPc = "while"
    /\ handled = 0
    /\ frames = 0
    /\ sent = 0

\* The key at a place of the layout, rows and columns counted from 0.
KeyAt(r, c) ==
    IF c = 0 THEN (IF r = 0 THEN "caps" ELSE IF r = 1 THEN "shift"
                   ELSE IF r = 2 THEN "[ space ]" ELSE "q")
    ELSE IF c = 1 THEN (IF r = 0 THEN "Done" ELSE "a")
    ELSE "1"
\* A layout from the lengths of its rows.
LayoutOf(lens) == [r \in DOMAIN lens |-> [c \in 1..lens[r] |-> KeyAt(r - 1, c - 1)]]
\* The layouts considered: two rows or more, every row with a key.
Layouts ==
    UNION {{LayoutOf(lens) : lens \in [1..n -> 1..MaxCols]} : n \in 2..MaxRows}
KeyboardModes == {"Normal", "Shift", "CapsLock"}
\* The places of a layout.
Places(l) == UNION {{<<r - 1, c - 1>> : c \in 1..Len(l[r])} : r \in DOMAIN l}
\* Option<KeyboardAction>: None, or Some of Exit, Backspace, Space or
\* KeyPress with the key and whether it is displayed shifted.
KbdAction(kind) == [kind |-> kind, key |-> "", shifted |-> FALSE]
KbdKeyPress(key, is_shifted) == [kind |-> "KeyPress", key |-> key, shifted |-> is_shifted]
\* A keyboard widget that has handled no input yet: handle_input has not been
\* called and has returned nothing.
KeyboardNew(l) ==
    /\ layout = l
    /\ cursor \in Places(l)
    /\ mode \in KeyboardModes
    /\ kbdAction = KbdAction("not called")

\* No key event: next_key_event has handled none yet, or the event it handled
\* last was not a key event.
NoEvent == [key |-> "", value |-> 0, emitted |-> <<>>]
\* EvdevAdapter::new: no modifier is set; no key of the device is down.
EvdevNew ==
    /\ modifiers = {}
    /\ held = {}
    /\ evOut = NoEvent

\* A state file left by an earlier release of the scripts, which managed no
\* amaru-doctor, with the notice gate set by its external consumer.
LegacyState ==
    [notify_after |-> 1,
     applications |-> [b \in {"amaru-pi", "amaru"} |-> DefaultRecord]]

\* The state file of a device that has checked and activated release ver of
\* amaru from its default repository: created by init_state_file, amaru's
\* record promoted, saved by the activator.
UpdatedState(ver) ==
    [notify_after |-> 0,
     applications |->
        [b \in Binaries |->
            IF b = "amaru"
            THEN [DefaultRecord EXCEPT !.current_version = ver,
                                       !.current_source = "pragma-org/amaru"]
            ELSE DefaultRecord]]

\* The state file of a device on which a check pass has staged release ver of
\* amaru from its default repository: created by init_state_file, amaru's
\* pending fields set by update_state_file.
StagedState(ver) ==
    update_state_filter(DefaultState, "amaru", ver, StagingPath("amaru"), "pragma-org/amaru")

\* log: what the process has written to its standard error for the binary it
\* handled last: the lines of level INFO and above that it logged, and the
\* error messages of the commands it ran.
UpdLocals(pc) ==
    [pc |-> pc, env |-> NoOverride, k |-> 0, latest_version |-> "",
     archive |-> NoArchive, staged |-> "", tmp |-> <<>>, log |-> <<>>]
ActLocals(pc) ==
    [pc |-> pc, state_json |-> <<>>, new_state_json |-> <<>>, n |-> 0]

\* The device before any run of the scripts, with no state file or with a
\* legacy one; or after a check pass and an activation pass that brought amaru
\* to the release its repository still offers; or after a check pass that
\* staged that release, before any activation.
DeviceInit ==
    /\ \/ /\ stateFile \in {AbsentStateFile, StateFileOf(<<LegacyState>>)}
          /\ binFile = [b \in Binaries |-> ImageBin]
          /\ bakFile = [b \in Binaries |-> NoFile]
          /\ remote \in Remotes
          /\ stagedFile = [b \in Binaries |-> NoFile]
       \/ \E ver \in Tags :
             /\ stateFile = StateFileOf(<<UpdatedState(ver)>>)
             /\ binFile = [b \in Binaries |->
                             IF b = "amaru" THEN Bin("pragma-org/amaru", ver) ELSE ImageBin]
             /\ bakFile = [b \in Binaries |-> IF b = "amaru" THEN ImageBin ELSE NoFile]
             /\ remote = [r \in Repos |-> IF r \in ReposOf("amaru") THEN ver ELSE "none"]
             /\ stagedFile = [b \in Binaries |-> NoFile]
       \/ \E ver \in Tags :
             /\ stateFile = StateFileOf(<<StagedState(ver)>>)
             /\ binFile = [b \in Binaries |-> ImageBin]
             /\ bakFile = [b \in Binaries |-> NoFile]
             /\ remote = [r \in Repos |-> IF r \in ReposOf("amaru") THEN ver ELSE "none"]
             /\ stagedFile = [b \in Binaries |->
                                IF b = "amaru" THEN Bin("pragma-org/amaru", ver) ELSE NoFile]
    /\ trigger = FALSE
    /\ svc = [s \in Services |-> "active"]
    /\ checkLock = 0
    /\ actLock = 0
    /\ actFd = "closed"
    /\ launches = 0
    /\ envFile = NoOverride
    /\ upd = [i \in Updaters |-> UpdLocals("new")]
    /\ act = [j \in Activators |-> ActLocals("new")]

\* The user interface before it has handled anything, on a keyboard of two
\* rows of two keys with the cursor on the first key.
UiNew ==
    /\ TuiInit
    /\ KeyboardNew(LayoutOf(<<2, 2>>)) /\ cursor = <<0, 0>> /\ mode = "Normal"
    /\ EvdevNew

Init == DeviceInit /\ UiNew

\* A device before any run of the scripts, with no state file.
FreshDevice ==
    /\ DeviceInit
    /\ stateFile = AbsentStateFile
    /\ remote["pragma-org/amaru"] \in Tags

\* [ -f path ]: the file at a path of the staging directory.
FileAt(path) ==
    IF \E b \in Binaries : StagingPath(b) = path
    THEN stagedFile[CHOOSE b \in Binaries : StagingPath(b) = path]
    ELSE NoFile

\* A rename onto the state file's path leaves a redirection opened on the
\* old file writing to a file no path names any more.
FdAfterRename == IF actFd = "open" THEN "orphaned" ELSE actFd

(***************************************************************************)
(* updater.sh                                                              *)
(***************************************************************************)
UpdInside(i) == upd[i].pc \notin {"new", "exit0", "exit1"}

\* The process ends: its locals are gone and its lock is released.
UpdExit(i, rc) ==
    /\ upd' = [upd EXCEPT ![i] = UpdLocals(IF rc = 0 THEN "exit0" ELSE "exit1")]
    /\ checkLock' = IF checkLock = i THEN 0 ELSE checkLock

\* log "<line>", for each of the lines: the process's log with them appended.
Logged(i, lines) == upd[i].log \o lines

\* check_one_binary logs its last line; the loop of main moves on to the next
\* binary, or main returns.
UpdNextBinary(i, lines) ==
    IF upd[i].k < Len(BINARIES_TO_UPDATE)
    THEN /\ upd' = [upd EXCEPT ![i] = [UpdLocals("check") EXCEPT
                                         !.env = upd[i].env, !.k = upd[i].k + 1,
                                         !.log = Logged(i, lines)]]
         /\ UNCHANGED checkLock
    ELSE UpdExit(i, 0)

\* The process starts: sources the environment, takes the lock or gives up.
UpdaterStart(i) ==
    /\ upd[i].pc \in {"new", "exit0", "exit1"}
    /\ i > 1 => UpdInside(i - 1)
    /\ launches < MaxLaunches
    /\ launches' = launches + 1
    /\ IF FlockNB(checkLock)
       THEN /\ upd' = [upd EXCEPT ![i] = [UpdLocals("init") EXCEPT !.env = envFile]]
            /\ checkLock' = i
       ELSE /\ upd' = [upd EXCEPT ![i] = UpdLocals("exit1")]
            /\ UNCHANGED checkLock
    /\ UNCHANGED <<envFile, remote, stateFile, stagedFile, binFile, bakFile, trigger, svc, actLock, actFd, act>>
    /\ UNCHANGED uiVars

\* init_state_file: the test, and the redirection creating the file.
init_state_file(i) ==
    /\ upd[i].pc = "init"
    /\ \/ /\ stateFile.present
          /\ upd' = [upd EXCEPT ![i] = [@ EXCEPT !.pc = "check", !.k = 1]]
          /\ UNCHANGED <<stateFile, checkLock>>
       \/ /\ ~stateFile.present
          /\ stateFile' = EmptyStateFile
          /\ upd' = [upd EXCEPT ![i] = [@ EXCEPT !.pc = "init_write"]]
          /\ UNCHANGED checkLock
       \/ /\ ~stateFile.present
          /\ UpdExit(i, 1)
          /\ UNCHANGED stateFile
    /\ UNCHANGED <<launches, envFile, remote, stagedFile, binFile, bakFile, trigger, svc, actLock, actFd, act>>
    /\ UNCHANGED uiVars

\* init_state_file: jq -n writes the default document through the redirection.
init_state_write(i) ==
    /\ upd[i].pc = "init_write"
    /\ \/ /\ stateFile' = StateFileOf(<<DefaultState>>)
          /\ upd' = [upd EXCEPT ![i] = [@ EXCEPT !.pc = "check", !.k = 1]]
          /\ UNCHANGED checkLock
       \/ /\ UpdExit(i, 1)
          /\ UNCHANGED stateFile
    /\ UNCHANGED <<launches, envFile, remote, stagedFile, binFile, bakFile, trigger, svc, actLock, actFd, act>>
    /\ UNCHANGED uiVars

\* check_one_binary: jq -e ".applications[b]", true when the last output is
\* neither null nor false; with no output at all it is false.
HasRecord(content, binary) ==
    Len(content) > 0 /\ binary \in DOMAIN content[Len(content)].applications

check_has_record(i) ==
    /\ upd[i].pc = "check"
    /\ LET binary == BINARIES_TO_UPDATE[upd[i].k]
       IN  upd' = [upd EXCEPT ![i] = [@ EXCEPT
                      !.pc = IF HasRecord(stateFile.content, binary) THEN "read" ELSE "lazy_jq",
                      !.log = <<"INFO: Checking">>]]
    /\ UNCHANGED <<launches, envFile, remote, stateFile, stagedFile, binFile, bakFile, trigger, svc,
                   checkLock, actLock, actFd, act>>
    /\ UNCHANGED uiVars

\* check_one_binary, lazy add: jq writes the amended document to a temp file.
lazy_add_jq(i) ==
    /\ upd[i].pc = "lazy_jq"
    /\ LET binary == BINARIES_TO_UPDATE[upd[i].k]
           add(doc) == lazy_add_filter(doc, binary)
       IN  upd' = [upd EXCEPT ![i] = [@ EXCEPT !.pc = "lazy_mv",
                                               !.tmp = [n \in DOMAIN stateFile.content |->
                                                          add(stateFile.content[n])]]]
    /\ UNCHANGED <<launches, envFile, remote, stateFile, stagedFile, binFile, bakFile, trigger, svc,
                   checkLock, actLock, actFd, act>>
    /\ UNCHANGED uiVars

\* check_one_binary, lazy add: mv "$tmp" "$STATE_FILE".
lazy_add_mv(i) ==
    /\ upd[i].pc = "lazy_mv"
    /\ \/ /\ stateFile' = StateFileOf(upd[i].tmp)
          /\ actFd' = FdAfterRename
          /\ upd' = [upd EXCEPT ![i] = [@ EXCEPT !.pc = "read", !.tmp = <<>>]]
          /\ UNCHANGED checkLock
       \/ /\ UpdExit(i, 1)
          /\ UNCHANGED <<stateFile, actFd>>
    /\ UNCHANGED <<launches, envFile, remote, stagedFile, binFile, bakFile, trigger, svc, actLock, act>>
    /\ UNCHANGED uiVars

\* jq -r ".applications[b].<field> // <default>" "$STATE_FILE" in a command
\* substitution: the field's text, or nothing when the file holds no document.
ReadField(content, binary, field, default) ==
    IF Len(content) = 0 THEN ""
    ELSE JqRaw(JqAlt(AppOf(content[1], binary)[field], default))

\* check_one_binary from the reads of the current version and source to the
\* download: fetch, extract_release_info, the comparison, curl.
check_release(i, resp, dl) ==
    /\ upd[i].pc = "read"
    /\ LET binary == BINARIES_TO_UPDATE[upd[i].k]
           target_repo == GITHUB_REPOS(upd[i].env)[binary]
           current_version == ReadField(stateFile.content, binary, "current_version", "v0.0.0")
           current_source == ReadField(stateFile.content, binary, "current_source", "")
           info == extract_release_info(resp)
       IN  /\ resp \in Responses(remote[target_repo], target_repo)
           /\ IF fetch_latest_release_json(resp) # 0
              THEN dl = "tarball" /\ UpdNextBinary(i, fetch_log(resp))
              ELSE IF info.rc # 0
              THEN dl = "tarball" /\ UpdNextBinary(i, extract_log(resp))
              ELSE IF UpdateDue(current_version, info.latest_version,
                                current_source, target_repo)
                   THEN IF dl = "curlfail"
                        THEN UpdExit(i, 1)
                        ELSE /\ upd' = [upd EXCEPT ![i] = [@ EXCEPT
                                          !.pc = "stage",
                                          !.latest_version = info.latest_version,
                                          !.archive = ArchiveOf(dl, info.download_url, binary),
                                          !.log = Logged(i, <<"INFO: Found update">>)]]
                             /\ UNCHANGED checkLock
                   ELSE dl = "tarball" /\ UpdNextBinary(i, <<"INFO: is up to date">>)
    /\ UNCHANGED <<launches, envFile, remote, stateFile, stagedFile, binFile, bakFile, trigger, svc,
                   actLock, actFd, act>>
    /\ UNCHANGED uiVars

\* check_one_binary: local staged=$(stage_binary ...), then rm -f "$archive".
\* local's own status masks the substitution's, so the script goes on.
stage(i) ==
    /\ upd[i].pc = "stage"
    /\ LET binary == BINARIES_TO_UPDATE[upd[i].k]
           out == stage_binary(binary, upd[i].archive, stagedFile[binary])
       IN  /\ stagedFile' = [stagedFile EXCEPT ![binary] = out.staging_file]
           /\ upd' = [upd EXCEPT ![i] = [@ EXCEPT !.pc = "usf_jq",
                                                  !.staged = out.stdout,
                                                  !.archive = NoArchive,
                                                  !.log = Logged(i, out.stderr)]]
    /\ UNCHANGED <<launches, envFile, remote, stateFile, binFile, bakFile, trigger, svc,
                   checkLock, actLock, actFd, act>>
    /\ UNCHANGED uiVars

\* update_state_file: jq writes the amended document to a temp file.
update_state_jq(i) ==
    /\ upd[i].pc = "usf_jq"
    /\ LET binary == BINARIES_TO_UPDATE[upd[i].k]
           target_repo == GITHUB_REPOS(upd[i].env)[binary]
           set(doc) == update_state_filter(doc, binary, upd[i].latest_version,
                                           upd[i].staged, target_repo)
       IN  upd' = [upd EXCEPT ![i] = [@ EXCEPT !.pc = "usf_mv",
                                               !.tmp = [n \in DOMAIN stateFile.content |->
                                                          set(stateFile.content[n])]]]
    /\ UNCHANGED <<launches, envFile, remote, stateFile, stagedFile, binFile, bakFile, trigger, svc,
                   checkLock, actLock, actFd, act>>
    /\ UNCHANGED uiVars

\* update_state_file: mv "$tmp" "$STATE_FILE"; then the next binary.
update_state_mv(i) ==
    /\ upd[i].pc = "usf_mv"
    /\ \/ /\ stateFile' = StateFileOf(upd[i].tmp)
          /\ actFd' = FdAfterRename
          /\ UpdNextBinary(i, <<"SUCCESS: Staged">>)
       \/ /\ UpdExit(i, 1)
          /\ UNCHANGED <<stateFile, actFd>>
    /\ UNCHANGED <<launches, envFile, remote, stagedFile, binFile, bakFile, trigger, svc, actLock, act>>
    /\ UNCHANGED uiVars

\* The steps of a process that holds the check lock.
UpdaterBody(i) ==
    \/ init_state_file(i)
    \/ init_state_write(i)
    \/ check_has_record(i)
    \/ lazy_add_jq(i)
    \/ lazy_add_mv(i)
    \/ \E resp \in UNION {Responses(remote[r], r) : r \in Repos}, dl \in Downloads :
          check_release(i, resp, dl)
    \/ stage(i)
    \/ update_state_jq(i)
    \/ update_state_mv(i)

Updater(i) == UpdaterStart(i) \/ UpdaterBody(i)

(***************************************************************************)
(* activate-update.sh                                                      *)
(***************************************************************************)
ActInside(j) == act[j].pc \notin {"new", "exit0", "exit1"}

ActExit(j, rc) ==
    /\ act' = [act EXCEPT ![j] = ActLocals(IF rc = 0 THEN "exit0" ELSE "exit1")]
    /\ actLock' = IF actLock = j THEN 0 ELSE actLock

\* The operator points a binary at another repository.
SetOverride ==
    /\ envFile = NoOverride
    /\ envFile' \in EnvFiles \ {NoOverride}
    /\ UNCHANGED <<stateFile, stagedFile, binFile, bakFile, trigger, svc,
                   checkLock, actLock, actFd, launches, remote, upd, act>>
    /\ UNCHANGED uiVars

\* The external "update requested" signal.
RequestUpdate ==
    /\ ~trigger
    /\ trigger' = TRUE
    /\ UNCHANGED <<launches, envFile, remote, stateFile, stagedFile, binFile, bakFile, svc,
                   checkLock, actLock, actFd, upd, act>>
    /\ UNCHANGED uiVars

\* The process starts: takes the lock or gives up.
ActivateStart(j) ==
    /\ act[j].pc \in {"new", "exit0", "exit1"}
    /\ j > 1 => ActInside(j - 1)
    /\ trigger
    /\ launches < MaxLaunches
    /\ launches' = launches + 1
    /\ IF FlockNB(actLock)
       THEN /\ act' = [act EXCEPT ![j] = ActLocals("load")]
            /\ actLock' = j
       ELSE /\ act' = [act EXCEPT ![j] = ActLocals("exit1")]
            /\ UNCHANGED actLock
    /\ UNCHANGED <<envFile, remote, stateFile, stagedFile, binFile, bakFile, trigger, svc,
                   checkLock, actFd, upd>>
    /\ UNCHANGED uiVars

\* apply_updates: local state_json=$(cat "$STATE_FILE"); a missing file reads
\* as the empty text, local masking cat's failure.
load_state(j) ==
    /\ act[j].pc = "load"
    /\ act' = [act EXCEPT ![j] = [@ EXCEPT !.pc = "stop",
                                           !.state_json = stateFile.content,
                                           !.new_state_json = stateFile.content]]
    /\ UNCHANGED <<launches, envFile, remote, stateFile, stagedFile, binFile, bakFile, trigger, svc,
                   checkLock, actLock, actFd, upd>>
    /\ UNCHANGED uiVars

\* A variant: systemctl stop "$service" without || true, so that a stop that
\* fails ends the script.
stop_services_strict(j, failed) ==
    /\ act[j].pc = "stop"
    /\ svc' = [s \in Services |-> IF s \in failed THEN svc[s] ELSE "inactive"]
    /\ IF failed # {}
       THEN ActExit(j, 1)
       ELSE /\ act' = [act EXCEPT ![j] =
                        IF Len(Keys(act[j].state_json)) > 0 THEN [@ EXCEPT !.pc = "apps", !.n = 1]
                        ELSE [@ EXCEPT !.pc = "save"]]
            /\ UNCHANGED actLock
    /\ UNCHANGED <<launches, envFile, remote, stateFile, stagedFile, binFile, bakFile, trigger,
                   checkLock, actFd, upd>>
    /\ UNCHANGED uiVars

\* apply_updates: for each service, systemctl stop "$service" || true;
\* failed are the services whose stop fails. Then the loop over the keys.
stop_services(j, failed) ==
    /\ act[j].pc = "stop"
    /\ svc' = [s \in Services |-> IF s \in failed THEN svc[s] ELSE "inactive"]
    /\ act' = [act EXCEPT ![j] =
                 IF Len(Keys(act[j].state_json)) > 0 THEN [@ EXCEPT !.pc = "apps", !.n = 1]
                 ELSE [@ EXCEPT !.pc = "save"]]
    /\ UNCHANGED <<launches, envFile, remote, stateFile, stagedFile, binFile, bakFile, trigger,
                   checkLock, actLock, actFd, upd>>
    /\ UNCHANGED uiVars

\* A variant: the loop clears the pending fields of every application it
\* visits, swapped in or not.
AfterApp_clearing(a) ==
    LET app_name == Keys(a.state_json)[a.n]
        clear(doc) == SetApp(doc, app_name,
                             [AppOf(doc, app_name) EXCEPT !.pending_version = "",
                                                          !.pending_source = "",
                                                          !.staged_path = ""])
        cleared == [n \in DOMAIN a.new_state_json |-> clear(a.new_state_json[n])]
    IN  IF a.n < Len(Keys(a.state_json))
        THEN [a EXCEPT !.n = a.n + 1, !.new_state_json = cleared]
        ELSE [a EXCEPT !.pc = "save", !.n = 0, !.new_state_json = cleared]

\* A variant: after the loop the services are started, before any save.
AfterApp_starting(a) ==
    IF a.n < Len(Keys(a.state_json)) THEN [a EXCEPT !.n = a.n + 1]
    ELSE [a EXCEPT !.pc = "start", !.n = 0]

\* Where apply_updates goes after the n-th application of its loop.
AfterApp(a) ==
    IF a.n < Len(Keys(a.state_json)) THEN [a EXCEPT !.n = a.n + 1]
    ELSE [a EXCEPT !.pc = "save", !.n = 0]

\* apply_updates: one application of the loop; io is how the two mv fare.
apply_update(j, io) ==
    /\ act[j].pc = "apps"
    /\ LET a == act[j]
           app_name == Keys(a.state_json)[a.n]
           rec == AppOf(a.state_json[1], app_name)
           pending_ver == JqRaw(rec.pending_version)
           pending_src == JqRaw(JqAlt(rec.pending_source, ""))
           staged == JqRaw(rec.staged_path)
           promote(doc) == promote_filter(doc, app_name, pending_ver, pending_src)
           backup == binFile[app_name] # NoFile
       IN  IF pending_ver # "" /\ FileAt(staged) # NoFile
           THEN \/ /\ io = "ok"
                   /\ bakFile' = IF backup THEN [bakFile EXCEPT ![app_name] = binFile[app_name]]
                                 ELSE bakFile
                   /\ binFile' = [binFile EXCEPT ![app_name] = FileAt(staged)]
                   /\ stagedFile' = [stagedFile EXCEPT ![app_name] = NoFile]
                   /\ act' = [act EXCEPT ![j] =
                                AfterApp([a EXCEPT !.new_state_json =
                                            [n \in DOMAIN a.new_state_json |->
                                                promote(a.new_state_json[n])]])]
                   /\ UNCHANGED actLock
                \/ /\ io = "backup fails"
                   /\ backup
                   /\ ActExit(j, 1)
                   /\ UNCHANGED <<stagedFile, binFile, bakFile>>
                \/ /\ io = "install fails"
                   /\ bakFile' = IF backup THEN [bakFile EXCEPT ![app_name] = binFile[app_name]]
                                 ELSE bakFile
                   /\ binFile' = IF backup THEN [binFile EXCEPT ![app_name] = NoFile]
                                 ELSE binFile
                   /\ ActExit(j, 1)
                   /\ UNCHANGED stagedFile
           ELSE /\ io = "ok"
                /\ act' = [act EXCEPT ![j] = AfterApp(a)]
                /\ UNCHANGED <<stagedFile, binFile, bakFile, actLock>>
    /\ UNCHANGED <<launches, envFile, remote, stateFile, trigger, svc, checkLock, actFd, upd>>
    /\ UNCHANGED uiVars

\* apply_updates, save: the redirection > "$STATE_FILE" creates or truncates
\* the file before jq runs.
save_open(j) ==
    /\ act[j].pc = "save"
    /\ \/ /\ stateFile' = EmptyStateFile
          /\ actFd' = "open"
          /\ act' = [act EXCEPT ![j] = [@ EXCEPT !.pc = "save_write"]]
          /\ UNCHANGED actLock
       \/ /\ ActExit(j, 1)
          /\ UNCHANGED <<stateFile, actFd>>
    /\ UNCHANGED <<launches, envFile, remote, stagedFile, binFile, bakFile, trigger, svc, checkLock, upd>>
    /\ UNCHANGED uiVars

\* apply_updates, save: jq '.notify_after = 0' writes through the redirection.
save_write(j) ==
    /\ act[j].pc = "save_write"
    /\ LET out == [n \in DOMAIN act[j].new_state_json |->
                         save_filter(act[j].new_state_json[n])]
       IN  \/ /\ stateFile' = IF actFd = "open" /\ out # <<>> THEN StateFileOf(out)
                              ELSE stateFile
              /\ act' = [act EXCEPT ![j] = [@ EXCEPT !.pc = "start"]]
              /\ UNCHANGED actLock
           \/ /\ ActExit(j, 1)
              /\ UNCHANGED stateFile
    /\ actFd' = "closed"
    /\ UNCHANGED <<launches, envFile, remote, stagedFile, binFile, bakFile, trigger, svc, checkLock, upd>>
    /\ UNCHANGED uiVars

\* apply_updates: for each service, systemctl start "$service" || log "ERROR:
\* ..."; failed are the services whose start fails.
start_services(j, failed) ==
    /\ act[j].pc = "start"
    /\ svc' = [s \in Services |-> IF s \in failed THEN svc[s] ELSE "active"]
    /\ act' = [act EXCEPT ![j] = [@ EXCEPT !.pc = "rm_trigger"]]
    /\ UNCHANGED <<launches, envFile, remote, stateFile, stagedFile, binFile, bakFile, trigger,
                   checkLock, actLock, actFd, upd>>
    /\ UNCHANGED uiVars

\* A variant: the script ends without removing the trigger file.
rm_trigger_keeping(j) ==
    /\ act[j].pc = "rm_trigger"
    /\ ActExit(j, 0)
    /\ UNCHANGED <<launches, envFile, remote, stateFile, stagedFile, binFile, bakFile, trigger, svc,
                   checkLock, actFd, upd>>
    /\ UNCHANGED uiVars

\* main: rm -f "$TRIGGER_FILE", and the script ends.
rm_trigger(j) ==
    /\ act[j].pc = "rm_trigger"
    /\ trigger' = FALSE
    /\ ActExit(j, 0)
    /\ UNCHANGED <<launches, envFile, remote, stateFile, stagedFile, binFile, bakFile, svc, checkLock, actFd, upd>>
    /\ UNCHANGED uiVars

\* The steps of a process that holds the activation lock.
ActivatorBody(j) ==
    \/ load_state(j)
    \/ \E failed \in SUBSET Services : stop_services(j, failed)
    \/ \E io \in {"ok", "backup fails", "install fails"} : apply_update(j, io)
    \/ save_open(j)
    \/ save_write(j)
    \/ \E failed \in SUBSET Services : start_services(j, failed)
    \/ rm_trigger(j)

Activator(j) == ActivateStart(j) \/ ActivatorBody(j)

(***************************************************************************)
(* Specifications                                                          *)
(***************************************************************************)
Next ==
    \/ \E i \in Updaters : Updater(i)
    \/ \E j \in Activators : Activator(j)
    \/ RequestUpdate
    \/ SetOverride

\* The two scripts as the scheduler may run them: any number of processes of
\* either script at any time.
Spec == Init /\ [][Next]_vars

\* The scripts when the scheduler runs one pass at a time: no updater.sh
\* process is inside its locked section while an activate-update.sh one is.
UpdaterStartSeq(i) == (\A j \in Activators : ~ActInside(j)) /\ UpdaterStart(i)
ActivateStartSeq(j) == (\A i \in Updaters : ~UpdInside(i)) /\ ActivateStart(j)
NextSeq ==
    \/ \E i \in Updaters : UpdaterStartSeq(i) \/ UpdaterBody(i)
    \/ \E j \in Activators : ActivateStartSeq(j) \/ ActivatorBody(j)
    \/ RequestUpdate
    \/ SetOverride
SpecSeq == Init /\ [][NextSeq]_vars

(***************************************************************************)
(* tui.rs: run                                                             *)
(***************************************************************************)
AppActions == {"Quit", "None"}
InputEvents == {"Button", "Key"}
\* app.update(event): the actions it may return, in order.
Updates == UNION {[1..n -> AppActions] : n \in 0..MaxActions}

\* A backend or the evdev listener sends an input event on the channel.
TuiSend(event) ==
    /\ tuiPc # "done"
    /\ sent < MaxInputs
    /\ sent' = sent + 1
    /\ input_rx' = Append(input_rx, event)
    /\ UNCHANGED <<running, events, actions, tuiPc, handled, frames>>
    /\ UNCHANGED <<scriptVars, kbdVars, evVars>>

\* while running.load(): events.push(AppEvent::Tick); when running is false
\* the loop ends and the terminal is cleared.
TuiWhile ==
    /\ tuiPc = "while"
    /\ frames < MaxFrames
    /\ IF running
       THEN /\ events' = Append(events, "Tick")
            /\ tuiPc' = "recv"
       ELSE /\ tuiPc' = "done"
            /\ UNCHANGED events
    /\ UNCHANGED <<running, input_rx, actions, handled, frames, sent>>
    /\ UNCHANGED <<scriptVars, kbdVars, evVars>>

\* while let Ok(event) = input_rx.try_recv(): events.push(AppEvent::Input(event)).
TuiRecv ==
    /\ tuiPc = "recv"
    /\ IF input_rx # <<>>
       THEN /\ events' = Append(events, Head(input_rx))
            /\ input_rx' = Tail(input_rx)
            /\ UNCHANGED tuiPc
       ELSE /\ tuiPc' = "drain"
            /\ UNCHANGED <<events, input_rx>>
    /\ UNCHANGED <<running, actions, handled, frames, sent>>
    /\ UNCHANGED <<scriptVars, kbdVars, evVars>>

\* for event in events.drain(..): let actions = app.update(event); after the
\* last event, the test of running that follows the loop.
TuiUpdate(acts) ==
    /\ tuiPc = "drain"
    /\ IF events # <<>>
       THEN /\ events' = Tail(events)
            /\ actions' = acts
            /\ tuiPc' = "actions"
       ELSE /\ acts = <<>>
            /\ tuiPc' = "check"
            /\ UNCHANGED <<events, actions>>
    /\ UNCHANGED <<running, input_rx, handled, frames, sent>>
    /\ UNCHANGED <<scriptVars, kbdVars, evVars>>

\* for action in actions: Quit stores false in running and breaks out of
\* this loop; any other action is handed to handle_action.
TuiAction ==
    /\ tuiPc = "actions"
    /\ IF actions = <<>>
       THEN /\ tuiPc' = "drain"
            /\ UNCHANGED <<running, actions, handled>>
       ELSE IF Head(actions) = "Quit"
       THEN /\ running' = FALSE
            /\ actions' = <<>>
            /\ tuiPc' = "drain"
            /\ UNCHANGED handled
       ELSE /\ handled' = handled + 1
            /\ actions' = Tail(actions)
            /\ UNCHANGED <<running, tuiPc>>
    /\ UNCHANGED <<events, input_rx, frames, sent>>
    /\ UNCHANGED <<scriptVars, kbdVars, evVars>>

\* if !running.load() { break; }, and the terminal is cleared.
TuiCheck ==
    /\ tuiPc = "check"
    /\ tuiPc' = IF running THEN "draw" ELSE "done"
    /\ UNCHANGED <<running, events, input_rx, actions, handled, frames, sent>>
    /\ UNCHANGED <<scriptVars, kbdVars, evVars>>

\* terminal.draw(...)?: a frame is drawn, or the error ends run.
TuiDraw(ok) ==
    /\ tuiPc = "draw"
    /\ IF ok
       THEN /\ frames' = frames + 1
            /\ tuiPc' = "while"
       ELSE /\ tuiPc' = "done"
            /\ UNCHANGED frames
    /\ UNCHANGED <<running, events, input_rx, actions, handled, sent>>
    /\ UNCHANGED <<scriptVars, kbdVars, evVars>>

NextTui ==
    \/ \E event \in InputEvents : TuiSend(event)
    \/ TuiWhile
    \/ TuiRecv
    \/ \E acts \in Updates : TuiUpdate(acts)
    \/ TuiAction
    \/ TuiCheck
    \/ \E ok \in BOOLEAN : TuiDraw(ok)

\* The terminal loop on its own, with the input events sent to it.
InitTui == FreshDevice /\ UiNew
SpecTui == InitTui /\ [][NextTui]_vars

(***************************************************************************)
(* keyboard/input.rs: KeyboardWidget                                       *)
(***************************************************************************)
ButtonIds == {"A", "B", "X", "Y"}
\* ButtonPress: Short, Double, and a press of any other kind.
ButtonPresses == {"Short", "Double", "Long"}
\* KeyCode: the space, another character, Backspace, Enter, Esc, and a key
\* of any other kind.
KeyCodes == {"Char( )", "Char(c)", "Backspace", "Enter", "Esc", "Tab"}
KeyboardEvents ==
    [type : {"Button"}, id : ButtonIds, press_type : ButtonPresses] \cup
    [type : {"Key"}, id : KeyCodes, press_type : {""}]

\* A variant: the column is left as it is.
clamp_cursor_col_keeping(cur, l) == cur

\* clamp_cursor_col: the cursor with its column brought into its row.
clamp_cursor_col(cur, l) ==
    LET max_col == Len(l[cur[1] + 1]) - 1
    IN  IF cur[2] > max_col THEN <<cur[1], max_col>> ELSE cur

\* press_key: the mode it leaves and the action it returns.
press_key(cur, md, l) ==
    LET key == l[cur[1] + 1][cur[2] + 1]
        is_shifted == md \in {"Shift", "CapsLock"}
    IN  CASE key = "Done" -> [mode |-> md, action |-> KbdAction("Exit")]
          [] key = "shift" ->
               [mode |-> IF md = "Shift" THEN "Normal" ELSE "Shift",
                action |-> KbdAction("None")]
          [] key = "caps" ->
               [mode |-> IF md = "CapsLock" THEN "Normal" ELSE "CapsLock",
                action |-> KbdAction("None")]
          [] key = "[ space ]" -> [mode |-> md, action |-> KbdAction("Space")]
          [] OTHER ->
               [mode |-> IF md = "Shift" THEN "Normal" ELSE md,
                action |-> KbdKeyPress(key, is_shifted)]

\* handle_input: the cursor and the mode it leaves and the action it returns.
handle_input(cur, md, l, event) ==
    LET max_row == Len(l) - 1
        max_col == Len(l[cur[1] + 1]) - 1
        moved(c) == [cursor |-> c, mode |-> md, action |-> KbdAction("None")]
        returns(kind) == [cursor |-> cur, mode |-> md, action |-> KbdAction(kind)]
        id == event.id
        press_type == event.press_type
    IN  IF event.type = "Button"
        THEN CASE id = "A" /\ press_type = "Short" ->
                    moved(IF cur[2] < max_col THEN <<cur[1], cur[2] + 1>> ELSE <<cur[1], 0>>)
               [] id = "B" /\ press_type = "Short" ->
                    moved(IF cur[2] > 0 THEN <<cur[1], cur[2] - 1>> ELSE <<cur[1], max_col>>)
               [] id = "X" /\ press_type = "Short" ->
                    moved(IF cur[1] > 0 THEN clamp_cursor_col(<<cur[1] - 1, cur[2]>>, l) ELSE cur)
               [] id = "Y" /\ press_type = "Short" ->
                    moved(IF cur[1] < max_row THEN clamp_cursor_col(<<cur[1] + 1, cur[2]>>, l)
                          ELSE cur)
               [] id = "A" /\ press_type = "Double" ->
                    [cursor |-> cur, mode |-> press_key(cur, md, l).mode,
                     action |-> press_key(cur, md, l).action]
               [] id = "B" /\ press_type = "Double" -> returns("Backspace")
               [] id = "X" /\ press_type = "Double" ->
                    moved(IF cur[1] > 1 THEN clamp_cursor_col(<<cur[1] - 2, cur[2]>>, l) ELSE cur)
               [] id = "Y" /\ press_type = "Double" ->
                    moved(IF cur[1] < max_row - 1
                          THEN clamp_cursor_col(<<cur[1] + 2, cur[2]>>, l) ELSE cur)
               [] OTHER -> returns("None")
        ELSE CASE id = "Char( )" -> returns("Space")
               [] id = "Char(c)" ->
                    [cursor |-> cur, mode |-> md, action |-> KbdKeyPress("c", FALSE)]
               [] id = "Backspace" -> returns("Backspace")
               [] id \in {"Enter", "Esc"} -> returns("Exit")
               [] OTHER -> returns("None")

\* The widget handles one input event.
KeyboardInput(event) ==
    /\ cursor' = handle_input(cursor, mode, layout, event).cursor
    /\ mode' = handle_input(cursor, mode, layout, event).mode
    /\ kbdAction' = handle_input(cursor, mode, layout, event).action
    /\ UNCHANGED layout
    /\ UNCHANGED <<scriptVars, tuiVars, evVars>>

NextKeyboard == \E event \in KeyboardEvents : KeyboardInput(event)

\* The widget on any of the layouts, with the cursor at any of its places.
InitKeyboard ==
    /\ FreshDevice
    /\ TuiInit
    /\ \E l \in Layouts : KeyboardNew(l)
    /\ EvdevNew
SpecKeyboard == InitKeyboard /\ [][NextKeyboard]_vars

(***************************************************************************)
(* inputs/evdev.rs: EvdevAdapter                                           *)
(***************************************************************************)
\* The keys of the device: the six modifier keys, a letter, a digit, and a
\* key that has no crossterm code.
EvdevKeys ==
    {"KEY_LEFTSHIFT", "KEY_RIGHTSHIFT", "KEY_LEFTCTRL", "KEY_RIGHTCTRL",
     "KEY_LEFTALT", "KEY_RIGHTALT", "KEY_A", "KEY_1", "KEY_CAPSLOCK"}
\* The value of a key event: 0 release, 1 press, 2 repeat.
EvdevValues == {0, 1, 2}

\* evdev_key_to_crossterm_keycode: Some code, as a sequence of one, or None.
evdev_key_to_crossterm_keycode(key, mods) ==
    LET is_shifted == "SHIFT" \in mods
    IN  CASE key = "KEY_A" -> <<IF is_shifted THEN "Char(A)" ELSE "Char(a)">>
          [] key = "KEY_1" -> <<IF is_shifted THEN "Char(!)" ELSE "Char(1)">>
          [] OTHER -> <<>>

\* The modifier an evdev key stands for, if any.
ModifierOf(key) ==
    CASE key \in {"KEY_LEFTSHIFT", "KEY_RIGHTSHIFT"} -> {"SHIFT"}
      [] key \in {"KEY_LEFTCTRL", "KEY_RIGHTCTRL"} -> {"CONTROL"}
      [] key \in {"KEY_LEFTALT", "KEY_RIGHTALT"} -> {"ALT"}
      [] OTHER -> {}

\* next_key_event, the match on the key: self.modifiers after the event.
track_modifiers(mods, key, value) ==
    IF value = 1 THEN mods \cup ModifierOf(key)
    ELSE IF value = 0 THEN mods \ ModifierOf(key)
    ELSE mods

\* next_key_event on one key event: Some KeyEvent, as a sequence of one, when
\* it returns; None when it goes on to the next event.
key_event(mods, key, value) ==
    IF value = 0 THEN <<>>
    ELSE [n \in DOMAIN evdev_key_to_crossterm_keycode(key, mods) |->
            [code |-> evdev_key_to_crossterm_keycode(key, mods)[n],
             modifiers |-> mods,
             kind |-> IF value = 2 THEN "Repeat" ELSE "Press"]]

\* The device reports a key event and next_key_event handles it: a key that
\* is up is pressed, a key that is down repeats or is released.
EvdevKey(key, value) ==
    /\ IF value = 1 THEN key \notin held /\ Cardinality(held) < MaxHeld
       ELSE key \in held
    /\ held' = IF value = 1 THEN held \cup {key}
               ELSE IF value = 0 THEN held \ {key} ELSE held
    /\ modifiers' = track_modifiers(modifiers, key, value)
    /\ evOut' = [key |-> key, value |-> value,
                 emitted |-> key_event(track_modifiers(modifiers, key, value), key, value)]
    /\ UNCHANGED <<scriptVars, tuiVars, kbdVars>>

\* The device reports an event that is no key event: it is ignored.
EvdevOther ==
    /\ evOut' = NoEvent
    /\ UNCHANGED <<modifiers, held>>
    /\ UNCHANGED <<scriptVars, tuiVars, kbdVars>>

NextEvdev ==
    \/ \E key \in EvdevKeys : \E value \in EvdevValues : EvdevKey(key, value)
    \/ EvdevOther

\* The adapter on a keyboard with no key down.
InitEvdev == FreshDevice /\ UiNew
SpecEvdev == InitEvdev /\ [][NextEvdev]_vars

(***************************************************************************)
(* Properties                                                              *)
(***************************************************************************)
\* The state file holds a document; the record of binary b in it.
HasDoc == Len(stateFile.content) > 0
HasRec(b) == HasDoc /\ b \in DOMAIN stateFile.content[1].applications
Rec(b) == stateFile.content[1].applications[b]
Current(r) == <<r.current_version, r.current_source>>
Pending(r) == <<r.pending_version, r.pending_source, r.staged_path>>
NothingStaged == <<"", "", "">>
\* No process of either script is running.
Quiescent ==
    /\ \A i \in Updaters : ~UpdInside(i)
    /\ \A j \in Activators : ~ActInside(j)
\* Process i of updater.sh takes a step; process j of activate-update.sh does.
UpdStep(i) == upd'[i] # upd[i]
ActStep(j) == act'[j] # act[j]

\* C1: after any sequence of passes that ended (none of them in failure),
\* every record with a non-empty pendingVersion has a non-empty stagedPath
\* at which a file exists.
C1_PendingHasStagedFile ==
    (Quiescent /\ \A i \in Updaters : upd[i].pc # "exit1")
    /\ (\A j \in Activators : act[j].pc # "exit1")
    => \A b \in Binaries :
          (HasRec(b) /\ Rec(b).pending_version \notin {"", Null})
          => /\ Rec(b).staged_path \notin {"", Null}
             /\ FileAt(Rec(b).staged_path) # NoFile

\* A check pass staged an unusable download of amaru and ended in success.
C1_Staged_Nothing ==
    /\ Quiescent
    /\ \E i \in Updaters : upd[i].pc = "exit0"
    /\ HasRec("amaru")
    /\ Rec("amaru").pending_version \in Tags
    /\ Rec("amaru").staged_path = ""

\* C2: no step of a check pass changes the current version or source of a
\* record that exists; an activation pass changes them only in its save, and
\* then to the pending version and source it read with the record.
C2_UpdaterKeepsCurrent ==
    \A i \in Updaters : UpdStep(i) =>
        \A b \in Binaries :
            HasRec(b) => HasRec(b)' /\ Current(Rec(b))' = Current(Rec(b))
C2_ActivatorPromotes ==
    \A j \in Activators : ActStep(j) =>
        LET loaded(b) == AppOf(act[j].state_json[1], b)
        IN  CASE act[j].pc = "save" /\ act'[j].pc = "save_write" ->
                   \A b \in Binaries : HasRec(b) =>
                       /\ IsKey(act[j].state_json, b)
                       /\ Current(Rec(b)) = Current(loaded(b))
              [] act[j].pc = "save_write" ->
                   \A b \in Binaries : HasRec(b)' =>
                       /\ IsKey(act[j].state_json, b)
                       /\ \/ Current(Rec(b))' = Current(loaded(b))
                          \/ /\ loaded(b).pending_version # ""
                             /\ Current(Rec(b))' =
                                  <<loaded(b).pending_version, loaded(b).pending_source>>
              [] OTHER -> stateFile' = stateFile
C3_LoadedPending(j, b) ==
    IF IsKey(act[j].state_json, b)
    THEN Pending(act[j].state_json[1].applications[b]) ELSE <<>>
C3_NoLostUpdate ==
    [][\A j \in Activators :
          (act[j].pc = "save" /\ act'[j].pc = "save_write") =>
              \A b \in Binaries :
                  (HasRec(b) /\ Rec(b).pending_version # ""
                             /\ Pending(Rec(b)) # C3_LoadedPending(j, b))
                  => /\ IsKey(act[j].new_state_json, b)
                     /\ Pending(act[j].new_state_json[1].applications[b]) = Pending(Rec(b))]_vars

\* C4: a check pass and an activation pass are never inside their locked
\* sections at the same time.
C4_PassesExclusive ==
    \A i \in Updaters, j \in Activators : ~(UpdInside(i) /\ ActInside(j))

\* C5: at most one check pass is inside its locked section at a time, and at
\* most one activation pass; a process launched while another of its script
\* is inside ends at once in failure, having touched no shared file.
C5_OneAtATime ==
    /\ Cardinality({i \in Updaters : UpdInside(i)}) <= 1
    /\ Cardinality({j \in Activators : ActInside(j)}) <= 1
C5_Refused ==
    /\ \A i \in Updaters :
          (~UpdInside(i) /\ UpdStep(i) /\ \E k \in Updaters : UpdInside(k))
          => /\ upd'[i].pc = "exit1"
             /\ UNCHANGED <<stateFile, stagedFile, binFile, bakFile, trigger, svc,
                            checkLock, actLock>>
    /\ \A j \in Activators :
          (~ActInside(j) /\ ActStep(j) /\ \E k \in Activators : ActInside(k))
          => /\ act'[j].pc = "exit1"
             /\ UNCHANGED <<stateFile, stagedFile, binFile, bakFile, trigger, svc,
                            checkLock, actLock>>
C5_LockExcludes == []C5_OneAtATime /\ [][C5_Refused]_vars
\* A second updater.sh was refused while the first is inside.
C5_Contended == UpdInside(1) /\ upd[2].pc = "exit1"

\* C6: while a save of the state file is under way (the activator's, or the
\* first-run creation), a process that reads the file finds a document in it,
\* never an empty file.
C6_SaveUnderWay ==
    \/ \E j \in Activators :
          /\ act[j].pc = "save_write"
          /\ actFd = "open"
          /\ act[j].new_state_json # <<>>
    \/ \E i \in Updaters : upd[i].pc = "init_write"
C6_Reads ==
    \/ \E i \in Updaters :
          upd[i].pc \in {"check", "lazy_jq", "read", "usf_jq"} /\ UpdStep(i)
    \/ \E j \in Activators : act[j].pc = "load" /\ ActStep(j)
C6_AtomicSave == [][(C6_SaveUnderWay /\ C6_Reads) => HasDoc]_vars

\* C7: when an activation pass swaps in binary b, pending at v1 from s1 with
\* its staged file present and a binary installed, the install location gets
\* the staged payload, the staged file is gone, <b>.bak gets the binary that
\* was installed, and the record of b becomes current v1 from s1 with nothing
\* pending; no later step of the pass touches these files, and once the pass
\* has saved, the state file holds that record.
C7_Swap ==
    \A j \in Activators :
        (act[j].pc = "apps" /\ ActStep(j) /\ act'[j].pc \in {"apps", "save"}) =>
            LET b == Keys(act[j].state_json)[act[j].n]
                L == act[j].state_json[1].applications[b]
            IN  /\ (L.pending_version # "" /\ L.staged_path = StagingPath(b)
                       /\ stagedFile[b] # NoFile /\ binFile[b] # NoFile)
                   => /\ binFile'[b] = stagedFile[b]
                      /\ stagedFile'[b] = NoFile
                      /\ bakFile'[b] = binFile[b]
                      /\ act'[j].new_state_json[1].applications[b] =
                           [current_version |-> L.pending_version,
                            current_source |-> L.pending_source,
                            pending_version |-> "", pending_source |-> "",
                            staged_path |-> ""]
                /\ \A c \in Binaries \ {b} :
                      /\ binFile'[c] = binFile[c]
                      /\ stagedFile'[c] = stagedFile[c]
                      /\ bakFile'[c] = bakFile[c]
                      /\ IsKey(act[j].new_state_json, c) =>
                            act'[j].new_state_json[1].applications[c] =
                               act[j].new_state_json[1].applications[c]
C7_Frame ==
    \A j \in Activators :
        (ActStep(j) /\ act[j].pc # "apps") =>
            /\ UNCHANGED <<binFile, stagedFile, bakFile>>
            /\ ActInside(j)' /\ act[j].pc # "load"
                  => act'[j].new_state_json = act[j].new_state_json
C7_Saved ==
    \A j \in Activators :
        act[j].pc \in {"start", "rm_trigger"} =>
            \A b \in Binaries :
                IsKey(act[j].new_state_json, b) =>
                    HasRec(b) /\ Rec(b) = act[j].new_state_json[1].applications[b]
C8_UpToDate(i) ==
    LET b == BINARIES_TO_UPDATE[upd[i].k]
        repo == GITHUB_REPOS(upd[i].env)[b]
    IN  /\ HasRec(b)
        /\ Pending(Rec(b)) = NothingStaged
        /\ Rec(b).current_version = remote[repo]
        /\ Rec(b).current_source = repo
C8_Skips ==
    \A i \in Updaters :
        (upd[i].pc = "read" /\ UpdStep(i) /\ C8_UpToDate(i)) =>
            /\ upd'[i].pc \in {"check", "exit0"}
            /\ UNCHANGED <<stateFile, stagedFile>>
C8_OthersKept ==
    \A i \in Updaters :
        (UpdInside(i) /\ UpdStep(i) /\ upd[i].k > 0) =>
            \A b \in Binaries \ {BINARIES_TO_UPDATE[upd[i].k]} :
                /\ HasRec(b) => HasRec(b)' /\ Rec(b)' = Rec(b)
                /\ stagedFile'[b] = stagedFile[b]
C9_NothingPending(j) ==
    \A b \in Binaries :
        IsKey(act[j].state_json, b) =>
            act[j].state_json[1].applications[b].pending_version = ""
C9_FilesKept ==
    \A j \in Activators :
        (ActStep(j) /\ ActInside(j) /\ C9_NothingPending(j)) =>
            UNCHANGED <<binFile, bakFile, stagedFile>>
C9_Saved ==
    \A j \in Activators :
        (act[j].pc \in {"start", "rm_trigger"} /\ C9_NothingPending(j)) =>
            /\ stateFile.present
            /\ Len(stateFile.content) = Len(act[j].state_json)
            /\ \A n \in DOMAIN stateFile.content :
                  stateFile.content[n] = [act[j].state_json[n] EXCEPT !.notify_after = 0]
C9_ServicesCalled ==
    \A j \in Activators : ActStep(j) =>
        /\ act'[j].pc \in {"apps", "save"} => act[j].pc \in {"stop", "apps"}
        /\ act'[j].pc = "save_write" => act[j].pc = "save"
        /\ act'[j].pc = "start" => act[j].pc = "save_write"
        /\ act'[j].pc = "rm_trigger" => act[j].pc = "start"
        /\ act'[j].pc = "exit0" => act[j].pc = "rm_trigger"
        /\ act[j].pc = "stop" =>
              \E failed \in SUBSET Services :
                  svc' = [s \in Services |-> IF s \in failed THEN svc[s] ELSE "inactive"]
        /\ act[j].pc = "start" =>
              \E failed \in SUBSET Services :
                  svc' = [s \in Services |-> IF s \in failed THEN svc[s] ELSE "active"]
C9_Idempotent == [][C9_FilesKept /\ C9_ServicesCalled]_vars /\ []C9_Saved
\* A second activation pass in a row is about to end: it loaded the legacy
\* state as the first one had saved it, untouched by any check pass.
C9_SecondRun ==
    \E j \in Activators :
        /\ act[j].pc = "rm_trigger"
        /\ act[j].state_json # <<>>
        /\ act[j].state_json[1].notify_after = 0
        /\ DOMAIN act[j].state_json[1].applications = {"amaru-pi", "amaru"}
        /\ C9_NothingPending(j)
        /\ stateFile.content = act[j].state_json
        /\ binFile = [b \in Binaries |-> ImageBin]

\* C10: for a binary whose release was fetched and has a suitable asset, the
\* check pass goes on to download and stage exactly when the release's tag
\* is not the record's current version or the configured repository is not
\* the record's current source; and what it then records as pending is that
\* tag from the configured repository.
C10_Handed ==
    \A i \in Updaters :
        (upd[i].pc = "read" /\ UpdStep(i)) =>
            \A b \in Binaries, repo \in Repos :
                (b = BINARIES_TO_UPDATE[upd[i].k] /\ repo = GITHUB_REPOS(upd[i].env)[b]
                    /\ HasRec(b)) =>
                    \A resp \in Responses(remote[repo], repo), dl \in Downloads :
                        LET fetched == resp.http = 200 /\ resp.json /\ resp.tag_name # ""
                            matching == \E n \in DOMAIN resp.assets :
                                           /\ Contains(resp.assets[n].name, "linux")
                                           /\ Contains(resp.assets[n].name, "aarch64")
                                           /\ Contains(resp.assets[n].name, ".tar.gz")
                        IN  (fetched /\ matching /\ check_release(i, resp, dl)) =>
                                (upd'[i].pc \in {"stage", "exit1"}
                                    <=> (resp.tag_name # Rec(b).current_version
                                            \/ repo # Rec(b).current_source))
C10_Recorded ==
    \A i \in Updaters :
        (upd[i].pc = "usf_mv" /\ upd'[i].pc \in {"check", "exit0"}) =>
            \A b \in Binaries :
                (b = BINARIES_TO_UPDATE[upd[i].k] /\ HasRec(b)') =>
                    /\ Rec(b)'.pending_version = upd[i].latest_version
                    /\ Rec(b)'.pending_source = GITHUB_REPOS(upd[i].env)[b]
                    /\ Rec(b)'.staged_path = upd[i].staged
C10_DueWhenVersionOrSourceDiffers == [][C10_Handed /\ C10_Recorded]_vars
\* The installed version is staged again, from another repository.
C10_SameVersionOtherSource ==
    \E b \in Binaries :
        /\ HasRec(b)
        /\ Rec(b).current_version \in Tags
        /\ Rec(b).pending_version = Rec(b).current_version
        /\ Rec(b).pending_source # Rec(b).current_source
        /\ Rec(b).pending_source = GITHUB_REPOS(envFile)[b]
        /\ Rec(b).staged_path = StagingPath(b)
        /\ stagedFile[b] = Bin(Rec(b).pending_source, Rec(b).pending_version)

\* C11: when the release fetched for a binary has a tag but no asset whose
\* name contains "linux", "aarch64" and ".tar.gz", the check pass downloads
\* and stages nothing for it, leaves the state file and the staged files as
\* they are, logs that it skips, and goes on to the next binary (or ends in
\* success after the last one).
C11_TagNoAsset(resp) ==
    /\ resp.http = 200 /\ resp.json /\ resp.tag_name # ""
    /\ \A n \in DOMAIN resp.assets :
          ~(/\ Contains(resp.assets[n].name, "linux")
            /\ Contains(resp.assets[n].name, "aarch64")
            /\ Contains(resp.assets[n].name, ".tar.gz"))
C11_SkipLine == "WARN: Valid release found, but no matching aarch64 assets. Skipping."
C11_NoAssetSkips ==
    [][\A i \in Updaters :
          (upd[i].pc = "read" /\ UpdStep(i)) =>
              \A repo \in Repos :
                  repo = GITHUB_REPOS(upd[i].env)[BINARIES_TO_UPDATE[upd[i].k]] =>
                      \A resp \in Responses(remote[repo], repo), dl \in Downloads :
                          (C11_TagNoAsset(resp) /\ check_release(i, resp, dl)) =>
                              /\ UNCHANGED <<stateFile, stagedFile, binFile, bakFile>>
                              /\ IF upd[i].k < Len(BINARIES_TO_UPDATE)
                                 THEN /\ upd'[i].pc = "check"
                                      /\ upd'[i].k = upd[i].k + 1
                                      /\ upd'[i].archive = NoArchive
                                      /\ upd'[i].log = <<"INFO: Checking", C11_SkipLine>>
                                 ELSE upd'[i].pc = "exit0"]_vars
\* A check pass has skipped amaru-pi, whose repository offers a release, for
\* want of a suitable asset, and has come to amaru with amaru-pi's record as
\* it was.
C11_SkippedNoAsset ==
    \E i \in Updaters :
        /\ upd[i].pc = "check" /\ upd[i].k = 2
        /\ upd[i].log = <<"INFO: Checking", C11_SkipLine>>
        /\ remote[GITHUB_REPOS(upd[i].env)["amaru-pi"]] \in Tags
        /\ HasRec("amaru-pi")
        /\ Rec("amaru-pi") = DefaultRecord
        /\ stagedFile["amaru-pi"] = NoFile

\* C12: in a check pass that holds the lock, whatever happens to one binary
\* between the fetch of its release and the extraction of its download (fetch
\* failure, invalid descriptor, missing asset, download failure, extraction
\* failure), the pass does not end there while binaries remain: it goes on to
\* the state update of that binary or to check_one_binary of the next one.
C12_EveryBinaryChecked ==
    [][\A i \in Updaters :
          (UpdStep(i) /\ upd[i].pc \in {"read", "stage"}
                      /\ upd[i].k < Len(BINARIES_TO_UPDATE))
          => /\ upd'[i].pc \in {"check", "stage", "usf_jq"}
             /\ upd'[i].pc = "check" => upd'[i].k = upd[i].k + 1]_vars

\* C13: a pass that fails to write the state file ends in failure with no
\* partial effect. An activation pass that fails in its save has swapped no
\* binary (what it was to save is what it loaded), and the state file still
\* holds what the pass loaded; a check pass that fails in update_state_file
\* leaves the state file as it was, and a record of it that has a release
\* pending at a staged path finds that release's file there.
C13_ActivatorWriteFails ==
    \A j \in Activators :
        (act[j].pc \in {"save", "save_write"} /\ act'[j].pc = "exit1") =>
            /\ act[j].new_state_json = act[j].state_json
            /\ stateFile'.content = act[j].state_json
C13_StagerWriteFails ==
    \A i \in Updaters :
        (upd[i].pc = "usf_mv" /\ upd'[i].pc = "exit1") =>
            /\ stateFile' = stateFile
            /\ \A b \in Binaries :
                  (HasRec(b) /\ Rec(b).pending_version # ""
                             /\ Rec(b).staged_path = StagingPath(b))
                  => /\ stagedFile'[b] # NoFile
                     /\ stagedFile'[b][2] = Rec(b).pending_version
C13_WriteFailureNoPartialEffect ==
    [][C13_ActivatorWriteFails /\ C13_StagerWriteFails]_vars
\* An activation pass has ended in failure with amaru's staged release
\* installed and its record still pending in the state file.
C13_SwappedNotSaved ==
    /\ \E j \in Activators : act[j].pc = "exit1"
    /\ \A i \in Updaters : ~UpdInside(i)
    /\ HasRec("amaru")
    /\ Rec("amaru").pending_version \in Tags
    /\ Rec("amaru").staged_path = StagingPath("amaru")
    /\ stagedFile["amaru"] = NoFile
    /\ binFile["amaru"] = Bin(Rec("amaru").pending_source, Rec("amaru").pending_version)

\* C14: a pass that starts with no state file loads the default state
\* (notify_after 0 and a default record for each of amaru-pi, amaru and
\* amaru-doctor), and the state file it leaves behind is one well-formed
\* document with those three records: for a check pass after init_state_file,
\* for an activation pass after its load and after its save.
C14_WellFormed ==
    /\ stateFile.present
    /\ Len(stateFile.content) = 1
    /\ stateFile.content[1].notify_after \in Nat
    /\ Binaries \subseteq DOMAIN stateFile.content[1].applications
    /\ \A b \in Binaries, f \in DOMAIN DefaultRecord : Rec(b)[f] # Null
C14_CheckCreates ==
    \A i \in Updaters :
        /\ (upd[i].pc = "init" /\ UpdStep(i) /\ ~stateFile.present)
              => upd'[i].pc \in {"init_write", "exit1"}
        /\ (upd[i].pc = "init_write" /\ upd'[i].pc = "check")
              => stateFile' = StateFileOf(<<DefaultState>>)
C14_ActivateLoads ==
    \A j \in Activators :
        (act[j].pc = "load" /\ ActStep(j) /\ ~stateFile.present) =>
            act'[j].state_json = <<DefaultState>>
C14_ActivateLeaves ==
    \A j \in Activators :
        (act[j].pc \in {"start", "rm_trigger"} /\ act[j].state_json = <<>>)
        => C14_WellFormed
C14_AbsentLoadsDefault ==
    [][C14_CheckCreates /\ C14_ActivateLoads]_vars /\ []C14_ActivateLeaves
\* An activation pass that found no state file is about to end in success,
\* leaving an empty state file.
C14_LeftEmpty ==
    \E j \in Activators :
        /\ act[j].pc = "rm_trigger"
        /\ act[j].state_json = <<>>
        /\ stateFile = EmptyStateFile

\* C15: the trigger file is removed by an activation pass only in its last
\* step, after its save and after its service start calls, and a pass that
\* ends in success ends with the trigger absent, whether or not anything was
\* pending; a process refused the lock leaves the trigger as it is.
C15_Order ==
    \A j \in Activators : ActStep(j) =>
        /\ act'[j].pc = "rm_trigger" => act[j].pc = "start"
        /\ act'[j].pc = "start" => act[j].pc = "save_write"
        /\ act'[j].pc = "save_write" => act[j].pc = "save"
C15_RemovedLast ==
    /\ (trigger /\ ~trigger') =>
          \E j \in Activators : act[j].pc = "rm_trigger" /\ act'[j].pc = "exit0"
    /\ \A j \in Activators :
          (ActStep(j) /\ act'[j].pc = "exit0") => (act[j].pc = "rm_trigger" /\ ~trigger')
C15_ContendedKeeps ==
    \A j \in Activators :
        (~ActInside(j) /\ ActStep(j) /\ act'[j].pc = "exit1") => trigger' = trigger
C16_TarFailed(i) == \E n \in DOMAIN upd[i].log : upd[i].log[n] = "tar: Error is not recoverable"
C16_Abandoned ==
    \A i \in Updaters :
        (upd[i].pc = "stage" /\ UpdStep(i) /\ ~upd[i].archive.tar) =>
            upd'[i].pc \in {"check", "exit0", "exit1"}
C16_RecordKept ==
    \A i \in Updaters :
        /\ (upd[i].pc = "read" /\ UpdStep(i) /\ upd'[i].pc = "exit1") => stateFile' = stateFile
        /\ (upd[i].pc \in {"stage", "usf_jq", "usf_mv"} /\ UpdStep(i)
               /\ (C16_TarFailed(i) \/ ~upd[i].archive.tar)) =>
              \A b \in Binaries :
                  (b = BINARIES_TO_UPDATE[upd[i].k] /\ HasRec(b)) =>
                      HasRec(b)' /\ Pending(Rec(b))' = Pending(Rec(b))
C16_DownloadFailureKeepsRecord == [][C16_Abandoned /\ C16_RecordKept]_vars
\* A check pass saved an error body as amaru-pi's archive, recorded the
\* release as pending with no staged path, and went on to amaru.
C16_RecordedFailedDownload ==
    \E i \in Updaters :
        /\ upd[i].pc = "check" /\ upd[i].k = 2
        /\ C16_TarFailed(i)
        /\ HasRec("amaru-pi")
        /\ Rec("amaru-pi").pending_version \in Tags
        /\ Rec("amaru-pi").staged_path = ""
        /\ stagedFile["amaru-pi"] = NoFile

\* C17: when the archive extracted for a binary holds no file named exactly
\* as the binary, the check pass ends there in failure: update_state_file is
\* not run for the binary, no pending record is written for it, and no pass
\* logs both the missing payload and "SUCCESS: Staged" for one binary.
C17_Logged(i, line) == \E n \in DOMAIN upd[i].log : upd[i].log[n] = line
C17_Aborts ==
    \A i \in Updaters :
        (upd[i].pc = "stage" /\ UpdStep(i) /\ upd[i].archive.tar
            /\ \A f \in upd[i].archive.files : f[1] # BINARIES_TO_UPDATE[upd[i].k])
        => /\ upd'[i].pc = "exit1"
           /\ stateFile' = stateFile
C17_NoSuccess ==
    \A i \in Updaters :
        ~(C17_Logged(i, "ERROR: Extracted file missing") /\ C17_Logged(i, "SUCCESS: Staged"))
C17_MissingPayloadAborts == [][C17_Aborts]_vars /\ []C17_NoSuccess
\* A check pass found no amaru-pi in the archive it extracted, recorded the
\* release as pending all the same, reported success and went on to amaru.
C17_MissingPayloadStaged ==
    \E i \in Updaters :
        /\ upd[i].pc = "check" /\ upd[i].k = 2
        /\ upd[i].log = <<"INFO: Checking", "INFO: Found update",
                          "ERROR: Extracted file missing", "SUCCESS: Staged">>
        /\ HasRec("amaru-pi")
        /\ Pending(Rec("amaru-pi")) = <<"v1.2.0", "jeluard/amaru-pi", "">>

\* C18: the steps of one activation pass come in the order stop-all,
\* swap-all, save, start-all: the stop calls are the pass's first step after
\* its load, binaries are swapped only between the stop calls and the save,
\* the start calls come only after the save, and once a pass has come to its
\* start calls no installed binary or .bak file changes and no service is
\* stopped.
C18_StepOrder ==
    \A j \in Activators : ActStep(j) =>
        /\ act'[j].pc = "stop" => act[j].pc = "load"
        /\ act'[j].pc = "apps" => act[j].pc \in {"stop", "apps"}
        /\ act'[j].pc = "save" => act[j].pc \in {"stop", "apps"}
        /\ act'[j].pc = "save_write" => act[j].pc = "save"
        /\ act'[j].pc = "start" => act[j].pc = "save_write"
C18_Calls ==
    /\ binFile' # binFile =>
          \E j \in Activators : act[j].pc = "apps" /\ ActStep(j)
    /\ (\E s \in Services : svc[s] = "active" /\ svc'[s] = "inactive") =>
          \E j \in Activators : act[j].pc = "stop" /\ ActStep(j)
    /\ (\E s \in Services : svc[s] = "inactive" /\ svc'[s] = "active") =>
          \E j \in Activators : act[j].pc = "start" /\ ActStep(j)
    /\ \A j \in Activators :
          (act[j].pc = "stop" /\ ActStep(j)) => UNCHANGED <<binFile, bakFile, stagedFile, stateFile>>
C18_NoSwapAfterStart ==
    (\E j \in Activators : act[j].pc \in {"start", "rm_trigger"}) =>
        /\ UNCHANGED <<binFile, bakFile>>
        /\ \A s \in Services : svc[s] = "active" => svc'[s] = "active"
C18_FixedOrder == [][C18_StepOrder /\ C18_Calls /\ C18_NoSwapAfterStart]_vars
\* An activation pass has stopped the services, swapped amaru in and saved,
\* and has not called start yet.
C18_SwappedSavedNotStarted ==
    \E j \in Activators :
        /\ act[j].pc = "start"
        /\ svc = [s \in Services |-> "inactive"]
        /\ IsKey(act[j].state_json, "amaru")
        /\ act[j].state_json[1].applications["amaru"].pending_version \in Tags
        /\ binFile["amaru"] \notin {NoFile, ImageBin}
        /\ HasRec("amaru")
        /\ Rec("amaru").current_version \in Tags
        /\ Rec("amaru").pending_version = ""

\* C19: whichever service stop calls and service start calls fail, the
\* activation pass goes on as if none had: after the stop calls it enters the
\* swap loop (or the save, with no application to visit) with the files
\* untouched; a pending binary whose two mv succeed is swapped in and promoted
\* whatever state the services are in; the start calls are all made after the
\* save, undo no swap and leave the saved state as it is; and the pass then
\* removes the trigger and ends in success.
C19_StopFailuresIgnored ==
    \A j \in Activators :
        (act[j].pc = "stop" /\ ActStep(j)) =>
            /\ act'[j] = [act[j] EXCEPT
                             !.pc = IF Len(Keys(act[j].state_json)) > 0 THEN "apps" ELSE "save",
                             !.n = IF Len(Keys(act[j].state_json)) > 0 THEN 1 ELSE 0]
            /\ UNCHANGED <<binFile, bakFile, stagedFile, stateFile, trigger>>
C19_SwapsWhateverServices ==
    \A j \in Activators :
        (act[j].pc = "apps" /\ ActStep(j) /\ act'[j].pc # "exit1") =>
            \A b \in Binaries :
                (/\ b = Keys(act[j].state_json)[act[j].n]
                 /\ act[j].state_json[1].applications[b].pending_version # ""
                 /\ FileAt(act[j].state_json[1].applications[b].staged_path) # NoFile)
                => /\ binFile'[b] = FileAt(act[j].state_json[1].applications[b].staged_path)
                   /\ Current(act'[j].new_state_json[1].applications[b]) =
                        <<act[j].state_json[1].applications[b].pending_version,
                          act[j].state_json[1].applications[b].pending_source>>
C19_StartFailuresIgnored ==
    \A j \in Activators :
        /\ (act[j].pc = "start" /\ ActStep(j)) =>
              /\ act'[j] = [act[j] EXCEPT !.pc = "rm_trigger"]
              /\ UNCHANGED <<binFile, bakFile, stagedFile, stateFile, trigger>>
        /\ (act[j].pc = "rm_trigger" /\ ActStep(j)) =>
              /\ act'[j].pc = "exit0"
              /\ ~trigger'
              /\ UNCHANGED <<binFile, bakFile, stagedFile, stateFile, svc>>
C19_ServiceFailuresNotFatal ==
    [][C19_StopFailuresIgnored /\ C19_SwapsWhateverServices /\ C19_StartFailuresIgnored]_vars
\* An activation pass could not start amaru-pi.service, which stays stopped,
\* and is about to end in success with amaru swapped in and its promotion
\* saved.
C19_SwappedDespiteFailures ==
    \E j \in Activators :
        /\ act[j].pc = "rm_trigger"
        /\ svc["amaru-pi.service"] = "inactive"
        /\ svc["amaru.service"] = "active"
        /\ IsKey(act[j].state_json, "amaru")
        /\ act[j].state_json[1].applications["amaru"].pending_version \in Tags
        /\ act[j].state_json[1].applications["amaru"].current_version = "v0.0.0"
        /\ binFile["amaru"] = Bin("pragma-org/amaru", "v1.2.0")
        /\ HasRec("amaru")
        /\ Current(Rec("amaru")) = <<"v1.2.0", "pragma-org/amaru">>
        /\ Pending(Rec("amaru")) = NothingStaged

\* C20: an activation pass that has made its service stop calls does not end
\* before it has made its service start calls: no step of the swap loop or of
\* the save, failing or not, ends the pass.
C20_StopsAreFollowedByStarts ==
    [][\A j \in Activators :
          (act[j].pc \in {"apps", "save", "save_write"} /\ ActStep(j)) =>
              ActInside(j)']_vars
\* An activation pass has ended in failure after its stop calls and no
\* process is running: both services are left stopped, and the trigger is
\* still there.
C20_LeftStopped ==
    /\ Quiescent
    /\ \E j \in Activators : act[j].pc = "exit1"
    /\ \A j \in Activators : act[j].pc # "exit0"
    /\ svc = [s \in Services |-> "inactive"]
    /\ trigger

\* C21: when an activation pass comes to a binary whose loaded record has an
\* empty pending version, or whose staged path names no existing file, it
\* skips it: the installed binary, the .bak file and the staged file of that
\* binary and the state the pass is to save are as they were, and the pass
\* goes on with the next binary or with the save; what the pass then saves
\* is the state it built, so that a skipped record is saved as it was
\* loaded, a pending version without a staged file included.
C21_Skippable(j, b) ==
    LET L == act[j].state_json[1].applications[b]
    IN  L.pending_version = "" \/ FileAt(L.staged_path) = NoFile
C21_SkipIsNoOp ==
    \A j \in Activators :
        (act[j].pc = "apps" /\ ActStep(j)) =>
            \A b \in Binaries :
                (b = Keys(act[j].state_json)[act[j].n] /\ C21_Skippable(j, b)) =>
                    /\ binFile' = binFile
                    /\ bakFile' = bakFile
                    /\ stagedFile' = stagedFile
                    /\ act'[j].new_state_json = act[j].new_state_json
                    /\ IF act[j].n < Len(Keys(act[j].state_json))
                       THEN act'[j].pc = "apps" /\ act'[j].n = act[j].n + 1
                       ELSE act'[j].pc = "save"
C21_SavedAsBuilt ==
    \A j \in Activators :
        /\ (ActStep(j) /\ act[j].pc \in {"stop", "save", "save_write", "start"} /\ ActInside(j)')
              => act'[j].new_state_json = act[j].new_state_json
        /\ (act[j].pc = "save_write" /\ act'[j].pc = "start") =>
              \A b \in Binaries :
                  IsKey(act[j].new_state_json, b) =>
                      HasRec(b)' /\ Rec(b)' = act[j].new_state_json[1].applications[b]
C22_ResetByActivation ==
    \A j \in Activators :
        act[j].pc \in {"start", "rm_trigger"} =>
            HasDoc /\ stateFile.content[1].notify_after = 0
C22_CheckKeeps ==
    \A i \in Updaters :
        (UpdStep(i) /\ HasDoc) =>
            HasDoc' /\ stateFile'.content[1].notify_after = stateFile.content[1].notify_after
C22_NotifyAfterReset == []C22_ResetByActivation /\ [][C22_CheckKeeps]_vars
\* An activation pass is about to end in success and the state file has no
\* notify_after: the pass found no state file and saved no document.
C22_NoNotifyAfter ==
    \E j \in Activators :
        /\ act[j].pc = "rm_trigger"
        /\ act[j].new_state_json = <<>>
        /\ stateFile.present
        /\ ~HasDoc
        /\ svc = [s \in Services |-> "active"]

\* C23: the update cycle converges. When an activation pass that swapped in
\* binary b has saved, b's record names as current the latest release of the
\* repository it was staged from and has nothing pending, and no staged file
\* is left; a check pass that then comes to b, configured for that
\* repository, goes on without finding an update, leaving the state file and
\* all files as they are; and while the configuration stays the same, no step
\* of a check pass or of an activation pass changes b's installed file, its
\* staged file, or its record where the state file holds one.
C23_Swapped(j, b) ==
    /\ act[j].state_json # <<>>
    /\ b \in DOMAIN act[j].state_json[1].applications
    /\ act[j].new_state_json[1].applications[b] # act[j].state_json[1].applications[b]
C23_UpToDate(b, repo) ==
    /\ HasRec(b)
    /\ Rec(b).current_version \in Tags
    /\ Current(Rec(b)) = <<remote[repo], repo>>
    /\ Pending(Rec(b)) = NothingStaged
    /\ stagedFile[b] = NoFile
C23_ActivationPromotesLatest ==
    \A j \in Activators : \A b \in Binaries :
        (act[j].pc \in {"start", "rm_trigger"} /\ C23_Swapped(j, b)) =>
            C23_UpToDate(b, act[j].state_json[1].applications[b].pending_source)
C23_NextCheckSkips ==
    \A i \in Updaters :
        (/\ upd[i].pc = "read"
         /\ UpdStep(i)
         /\ C23_UpToDate(BINARIES_TO_UPDATE[upd[i].k],
                         GITHUB_REPOS(upd[i].env)[BINARIES_TO_UPDATE[upd[i].k]])) =>
            /\ upd'[i].pc \in {"check", "exit0"}
            /\ upd'[i].pc = "check" =>
                   \A n \in DOMAIN upd'[i].log : upd'[i].log[n] # "INFO: Found update"
            /\ UNCHANGED <<stateFile, stagedFile, binFile, bakFile, trigger>>
C23_SameConfiguration(b) ==
    /\ envFile' = envFile
    /\ \A i \in Updaters :
           UpdInside(i) => GITHUB_REPOS(upd[i].env)[b] = GITHUB_REPOS(envFile)[b]
C23_FixedPoint ==
    \A b \in Binaries :
        (C23_UpToDate(b, GITHUB_REPOS(envFile)[b]) /\ C23_SameConfiguration(b)) =>
            /\ binFile'[b] = binFile[b]
            /\ stagedFile'[b] = stagedFile[b]
            /\ HasRec(b)' => Rec(b)' = Rec(b)
C24_Promoted(j, b) ==
    /\ act[j].pc \in {"start", "rm_trigger"}
    /\ act[j].state_json # <<>>
    /\ b \in DOMAIN act[j].state_json[1].applications
    /\ Current(act[j].new_state_json[1].applications[b]) =
           <<act[j].state_json[1].applications[b].pending_version,
             act[j].state_json[1].applications[b].pending_source>>
    /\ HasRec(b)
    /\ Current(Rec(b)) = Current(act[j].new_state_json[1].applications[b])
C24_CurrentDescribesInstalled ==
    \A j \in Activators : \A b \in Binaries :
        C24_Promoted(j, b) =>
            binFile[b] = Bin(Rec(b).current_source, Rec(b).current_version)
\* The activator has saved amaru's record as promoted from one repository
\* while the file it installed is the payload a check pass staged meanwhile
\* from another.
C24_InstalledFromElsewhere ==
    \E j \in Activators : \E s \in Repos : \E v \in Tags :
        /\ C24_Promoted(j, "amaru")
        /\ Current(Rec("amaru")) = <<v, "pragma-org/amaru">>
        /\ s # "pragma-org/amaru"
        /\ binFile["amaru"] = Bin(s, v)
        /\ stagedFile["amaru"] = NoFile

\* C25: in the terminal loop, once an update has produced Quit (running is
\* false), no action is handed to handle_action any more, neither a later
\* action of the same event nor an action of a later event drained in the
\* same iteration; no frame is drawn any more; and the loop is left: run
\* goes on only through the rest of the drain to its end, never back to the
\* head of the loop.
C25_NoActionHandled == ~running => handled' = handled
C25_NoFrameDrawn == ~running => frames' = frames
C25_LoopLeft == ~running => tuiPc' \in {"drain", "actions", "check", "done"}
C25_QuitStopsTheLoop ==
    [][C25_NoActionHandled /\ C25_NoFrameDrawn /\ C25_LoopLeft]_vars
\* Quit has been produced, and the update of a later event of the same
\* iteration has returned an action that is about to be handed to
\* handle_action.
C25_HandlingAfterQuit ==
    /\ ~running
    /\ tuiPc = "actions"
    /\ actions # <<>>
    /\ Head(actions) # "Quit"

\* C26: after any sequence of button and key input events, starting from a
\* cursor inside the layout, the cursor of the on-screen keyboard is a place
\* of the layout: its row is at most the last row and its column at most the
\* last column of that row.
C26_CursorValid ==
    /\ cursor[1] <= Len(layout) - 1
    /\ cursor[2] <= Len(layout[cursor[1] + 1]) - 1
\* The widget has handled a move and the cursor is on the last key of a row
\* that is shorter than the row above it or the row below it.
C26_OnLastKeyOfShorterRow ==
    /\ kbdAction = KbdAction("None")
    /\ cursor[2] = Len(layout[cursor[1] + 1]) - 1
    /\ \E r \in DOMAIN layout :
           /\ r \in {cursor[1], cursor[1] + 2}
           /\ Len(layout[r]) > Len(layout[cursor[1] + 1])

\* C27: after any sequence of key presses and releases, each modifier the
\* evdev adapter tracks (SHIFT, CONTROL, ALT) is set exactly when at least
\* one of its two keys, left or right, is down; and a key release never
\* makes next_key_event return a KeyEvent.
C27_SetWhenHeld ==
    \A m \in {"SHIFT", "CONTROL", "ALT"} :
        m \in modifiers <=> \E key \in held : ModifierOf(key) = {m}
C27_ReleaseEmitsNothing == (evOut.key # "" /\ evOut.value = 0) => evOut.emitted = <<>>
C27_ModifiersFollowKeys == C27_SetWhenHeld /\ C27_ReleaseEmitsNothing
\* Both shift keys were down and the left one has been released: the right
\* one is still down and SHIFT is not set.
C27_ShiftLostWhileHeld ==
    /\ evOut.key = "KEY_LEFTSHIFT" /\ evOut.value = 0
    /\ "KEY_RIGHTSHIFT" \in held
    /\ "SHIFT" \notin modifiers

====
